---- MODULE Spec2Model ----
(***************************************************************************)
(* Model of the Quota Data Transformer (src/App.tsx): the App component's  *)
(* state and handlers, the transform pipeline of handleTransform, and the  *)
(* CopyButton component (src/components/CopyButton.tsx).                   *)
(*                                                                         *)
(* Text is a sequence of symbols.  A symbol is either one of the           *)
(* characters the code looks at (space, tab, newline, comma, double quote, *)
(* parentheses) or an atomic word that contains none of them.  No word of  *)
(* the alphabet is a concatenation of other symbols, so two texts are the  *)
(* same string exactly when they are the same sequence.                    *)
(* A nullable value is <<>> (null) or <<v>>.                               *)
(***************************************************************************)
EXTENDS Integers, Sequences, FiniteSets, TLC

VARIABLES rawInput, categorizedData, transformedData, error, unifiedView, run,
          copyState, copyData, writing, writingText, timers, clipboard

vars == <<rawInput, categorizedData, transformedData, error, unifiedView, run,
          copyState, copyData, writing, writingText, timers, clipboard>>

\* The state of App, and the state of one CopyButton: its copyState, its data
\* prop, the calls of handleCopy that await clipboard.write or
\* clipboard.writeText, the reset timers not yet fired, and the clipboard.
appVars == <<rawInput, categorizedData, transformedData, error, unifiedView, run>>
copyVars == <<copyState, copyData, writing, writingText, timers, clipboard>>

\* ------------------------------------------------------------ characters
SP == " "
TAB == "\t"
NL == "\n"
COMMA == ","
QUOTE == "\""
LP == "("
RP == ")"

\* The words of the alphabet made of upper-case letters only ([A-Z]+).
UpperWords == {"SB", "NE", "ID", "SKU", "UTC", "AZ", "RI", "VM", "X"}

Null == <<>>
Some(v) == <<v>>

Range(s) == {s[i] : i \in 1..Len(s)}
MaxOf(S) == CHOOSE x \in S : \A y \in S : y <= x
MinOf(S) == CHOOSE x \in S : \A y \in S : x <= y

\* ------------------------------------------------------ string primitives
\* \s of a JavaScript regular expression, and what String.prototype.trim strips.
IsSpace(c) == c \in {SP, TAB, NL}

\* String.prototype.trim
Trim(s) ==
    LET keep == {i \in 1..Len(s) : ~IsSpace(s[i])}
    IN  IF keep = {} THEN <<>> ELSE SubSeq(s, MinOf(keep), MaxOf(keep))

\* s.split(c) for a one-character separator c
RECURSIVE SplitChar(_, _)
SplitChar(s, c) ==
    LET at == {i \in 1..Len(s) : s[i] = c}
    IN  IF at = {} THEN <<s>>
        ELSE LET i == MinOf(at)
             IN  <<SubSeq(s, 1, i - 1)>> \o SplitChar(SubSeq(s, i + 1, Len(s)), c)

\* s.split(/\s+/): every maximal run of whitespace is one separator
RECURSIVE SplitWhitespace(_)
SplitWhitespace(s) ==
    LET at == {i \in 1..Len(s) : IsSpace(s[i])}
    IN  IF at = {} THEN <<s>>
        ELSE LET i == MinOf(at)
                 after == {j \in i..Len(s) : ~IsSpace(s[j])}
                 j == IF after = {} THEN Len(s) + 1 ELSE MinOf(after)
             IN  <<SubSeq(s, 1, i - 1)>> \o SplitWhitespace(SubSeq(s, j, Len(s)))

\* The separator values of handleTransform: '\t', ',' or the regular expression /\s+/
WhitespaceRun == "/\\s+/"

Split(s, separator) ==
    IF separator = WhitespaceRun THEN SplitWhitespace(s) ELSE SplitChar(s, separator)

\* (headerLine.match(/c/g) || []).length
CountChar(s, c) == Cardinality({i \in 1..Len(s) : s[i] = c})

\* v.trim().replace(/"/g, '')
IsNotQuote(c) == c # QUOTE
CleanField(v) == SelectSeq(Trim(v), IsNotQuote)

\* line.split(separator).map(v => v.trim().replace(/"/g, ''))
SplitFields(line, separator) ==
    LET parts == Split(line, separator)
    IN  [i \in 1..Len(parts) |-> CleanField(parts[i])]

\* ------------------------------------------------- cleanAzureDevOpsHeader
BannerPrefix == "Project: Quota"
BannerServer == "Server: https://dev.azure.com/capacityrequest"
BannerQuery == "Query: [None]"
BannerList == "List type: Flat"

\* lines.slice(1).join('\n')
RECURSIVE JoinLines(_)
JoinLines(ls) ==
    IF Len(ls) = 0 THEN <<>>
    ELSE IF Len(ls) = 1 THEN ls[1]
    ELSE ls[1] \o <<NL>> \o JoinLines(Tail(ls))

\* Mutant of cleanAzureDevOpsHeader: the "Query: [None]" part is not asked for.
cleanAzureDevOpsHeaderNoQuery(text) ==
    IF text = <<>> THEN text
    ELSE LET lines == SplitChar(text, NL)
             firstLine == Trim(lines[1])
             isAzureHeader == /\ Len(firstLine) > 0
                              /\ firstLine[1] = BannerPrefix
                              /\ BannerServer \in Range(firstLine)
                              /\ BannerList \in Range(firstLine)
         IN  IF isAzureHeader THEN JoinLines(Tail(lines)) ELSE text

cleanAzureDevOpsHeader(text) ==
    IF text = <<>> THEN text
    ELSE LET lines == SplitChar(text, NL)
             firstLine == Trim(lines[1])
             isAzureHeader == /\ Len(firstLine) > 0
                              /\ firstLine[1] = BannerPrefix
                              /\ BannerServer \in Range(firstLine)
                              /\ BannerQuery \in Range(firstLine)
                              /\ BannerList \in Range(firstLine)
         IN  IF isAzureHeader THEN JoinLines(Tail(lines)) ELSE text

\* ------------------------------------------------------------ cleanRegion
\* Length of a match of /\s\([A-Z]+\)/ at the start of s, 0 when there is none.
RegionMatchLen(s) ==
    IF Len(s) >= 4 /\ IsSpace(s[1]) /\ s[2] = LP
    THEN LET stop == {i \in 3..Len(s) : s[i] \notin UpperWords}
             e == IF stop = {} THEN Len(s) + 1 ELSE MinOf(stop)
         IN  IF e > 3 /\ e <= Len(s) /\ s[e] = RP THEN e ELSE 0
    ELSE 0

\* region.replace(/\s\([A-Z]+\)/g, ''): the matches are found left to right
RECURSIVE RemoveAbbreviations(_)
RemoveAbbreviations(s) ==
    IF s = <<>> THEN <<>>
    ELSE LET n == RegionMatchLen(s)
         IN  IF n > 0 THEN RemoveAbbreviations(SubSeq(s, n + 1, Len(s)))
             ELSE <<s[1]>> \o RemoveAbbreviations(Tail(s))

cleanRegion(region) ==
    IF region = <<>> THEN region ELSE Trim(RemoveAbbreviations(region))

\* ---------------------------------------------------------- column names
ColID == <<"ID">>
ColRDQuota == <<"RDQuota">>
ColUTCTicket == <<"UTC", SP, "Ticket">>
ColDeploymentConstraints == <<"Deployment", SP, "Constraints">>
ColEventID == <<"Event", SP, "ID">>
ColReason == <<"Reason">>
ColSubscriptionID == <<"Subscription", SP, "ID">>
ColSKU == <<"SKU">>
ColRegion == <<"Region">>
ColRequestType == <<"Request", SP, "Type">>
ColVMType == <<"VM", SP, "Type">>
ColZone == <<"Zone">>
ColCores == <<"Cores">>
ColStatus == <<"Status">>

finalHeaders ==
    <<ColSubscriptionID, ColRequestType, ColVMType, ColRegion, ColZone, ColCores, ColStatus>>

requiredOriginalHeaders ==
    <<ColUTCTicket, ColDeploymentConstraints, ColEventID, ColReason,
      ColSubscriptionID, ColSKU, ColRegion>>

\* ------------------------------------------------------------ field values
NA == <<"N/A">>
MinusOne == <<"-1">>
AZEnablement == <<"AZ", SP, "Enablement/Whitelisting">>
RegionEnablement == <<"Region", SP, "Enablement/Whitelisting">>
WhitelistingQuotaIncrease == <<"Whitelisting/Quota", SP, "Increase">>
QuotaIncrease == <<"Quota", SP, "Increase">>
RegionLimitIncrease == <<"Region", SP, "Limit", SP, "Increase">>
RIEnablement == <<"RI", SP, "Enablement/Whitelisting">>
FulfillmentActionsCompleted == <<"Fulfillment", SP, "Actions", SP, "Completed">>
VerificationSuccessful == <<"Verification", SP, "Successful">>
Abandoned == <<"Abandoned">>
Dash == <<"-">>

\* ---------------------------------------------------------- error messages
EmptyInput == <<"Input data cannot be empty.">>
MissingHeaderRow == <<"Input must contain a header row and at least one data row.">>
NoValidRows == <<"No valid data rows could be processed. Please check your input.">>
MissingIdentifier == <<"Missing required header column: ", QUOTE, "ID", QUOTE, " or ", QUOTE, "RDQuota", QUOTE>>
MissingColumn(reqHeader) == <<"Missing required header column: ", QUOTE>> \o reqHeader \o <<QUOTE>>
\* The TypeError messages of the engine for a call of a value that is no function.
HasOwnPropertyNotAFunction == <<"headerMap.hasOwnProperty is not a function">>
PushNotAFunction == <<"groups[category].push is not a function">>
\* `Failed to process data: ${e.message}. Please check the input format.`
FailedToProcess(message) ==
    <<"Failed to process data: ">> \o message \o <<". Please check the input format.">>

\* Names every object inherits from Object.prototype: on a plain object {} a read
\* of one of them finds the inherited member, not undefined.
ObjectPrototypeKeys ==
    { <<"constructor">>, <<"hasOwnProperty">>, <<"isPrototypeOf">>,
      <<"propertyIsEnumerable">>, <<"toLocaleString">>, <<"toString">>,
      <<"valueOf">>, <<"__proto__">>, <<"__defineGetter__">>,
      <<"__defineSetter__">>, <<"__lookupGetter__">>, <<"__lookupSetter__">> }

\* ------------------------------------------------------------- header map
\* headers.forEach((header, index) => { headerMap[header] = index; }): zero-based,
\* a later column of the same name overwrites an earlier one.  An assignment to
\* headerMap["__proto__"] of a number is ignored: it creates no key.
\* Mutant of BuildHeaderMap: the first column of a name is kept.
BuildHeaderMapFirst(headers) ==
    [h \in Range(headers) \ {<<"__proto__">>} |->
        MinOf({i \in 1..Len(headers) : headers[i] = h}) - 1]

BuildHeaderMap(headers) ==
    [h \in Range(headers) \ {<<"__proto__">>} |->
        MaxOf({i \in 1..Len(headers) : headers[i] = h}) - 1]

\* values[headerMap[col]]?.trim() || ''
get(values, headerMap, col) ==
    IF col \in DOMAIN headerMap /\ headerMap[col] + 1 <= Len(values)
    THEN Trim(values[headerMap[col] + 1])
    ELSE <<>>

\* Mutant of IsAlreadyTransformed: some() in place of every().
IsAlreadyTransformedSome(headers) ==
    \E i \in 1..Len(finalHeaders) : finalHeaders[i] \in Range(headers)

\* finalHeaders.every(h => headers.includes(h))
IsAlreadyTransformed(headers) ==
    \A i \in 1..Len(finalHeaders) : finalHeaders[i] \in Range(headers)

\* Mutant of DetectSeparator: a tie of tabs and commas goes to the tab.
DetectSeparatorTieToTab(headerLine) ==
    LET tabCount == CountChar(headerLine, TAB)
        commaCount == CountChar(headerLine, COMMA)
    IN  IF tabCount >= commaCount /\ tabCount > 0 THEN TAB
        ELSE IF commaCount > 0 THEN COMMA
        ELSE WhitespaceRun

\* Auto-detect separator
DetectSeparator(headerLine) ==
    LET tabCount == CountChar(headerLine, TAB)
        commaCount == CountChar(headerLine, COMMA)
    IN  IF tabCount > commaCount /\ tabCount > 0 THEN TAB
        ELSE IF commaCount > 0 THEN COMMA
        ELSE WhitespaceRun

\* -------------------------------------------------------- rewrite tables
\* Mutant of RewriteRequestType: the RI entry is missing from the table.
RewriteRequestTypeNoRI(originalRequestType) ==
    CASE originalRequestType = AZEnablement -> <<"Zonal", SP, "Enablement">>
      [] originalRequestType = RegionEnablement -> <<"Region", SP, "Enablement">>
      [] originalRequestType = WhitelistingQuotaIncrease ->
             <<"Region", SP, "Enablement", SP, "&", SP, "Quota", SP, "Increase">>
      [] OTHER -> originalRequestType

\* switch (originalRequestType) of the raw branch
RewriteRequestType(originalRequestType) ==
    CASE originalRequestType = AZEnablement -> <<"Zonal", SP, "Enablement">>
      [] originalRequestType = RegionEnablement -> <<"Region", SP, "Enablement">>
      [] originalRequestType = WhitelistingQuotaIncrease ->
             <<"Region", SP, "Enablement", SP, "&", SP, "Quota", SP, "Increase">>
      [] originalRequestType = QuotaIncrease -> <<"Quota", SP, "Increase">>
      [] originalRequestType = RegionLimitIncrease -> <<"Region", SP, "Limit", SP, "Increase">>
      [] originalRequestType = RIEnablement -> <<"Reserved", SP, "Instances">>
      [] OTHER -> originalRequestType

\* Mutant of RewriteStatusPre: the Fulfillment rule of the raw branch is applied too.
RewriteStatusPreFulfilled(status) ==
    IF status = FulfillmentActionsCompleted THEN <<"Fulfilled">>
    ELSE IF status = VerificationSuccessful THEN <<"Approved">>
    ELSE IF status = Abandoned THEN <<"Backlogged">>
    ELSE IF status = Dash THEN <<"Pending", SP, "Customer", SP, "Response">>
    ELSE status

\* The status chain of the pre-normalized branch
RewriteStatusPre(status) ==
    IF status = VerificationSuccessful THEN <<"Approved">>
    ELSE IF status = Abandoned THEN <<"Backlogged">>
    ELSE IF status = Dash THEN <<"Pending", SP, "Customer", SP, "Response">>
    ELSE status

\* Mutant of RewriteStatusRaw: Verification Successful is rewritten to a value
\* the chain rewrites again.
RewriteStatusRawChained(status) ==
    IF status = FulfillmentActionsCompleted THEN <<"Fulfilled">>
    ELSE IF status = VerificationSuccessful THEN Abandoned
    ELSE IF status = Abandoned THEN <<"Backlogged">>
    ELSE IF status = Dash THEN <<"Pending", SP, "Customer", SP, "Response">>
    ELSE status

\* The status chain of the raw branch
RewriteStatusRaw(status) ==
    IF status = FulfillmentActionsCompleted THEN <<"Fulfilled">>
    ELSE IF status = VerificationSuccessful THEN <<"Approved">>
    ELSE IF status = Abandoned THEN <<"Backlogged">>
    ELSE IF status = Dash THEN <<"Pending", SP, "Customer", SP, "Response">>
    ELSE status

\* ------------------------------------------------------------------- rows
\* Mutant of PreRow: the Original ID is read from the ID column.
PreRowSourceID(values, headerMap, index) ==
    [ SubscriptionID |-> get(values, headerMap, ColSubscriptionID),
      RequestType    |-> get(values, headerMap, ColRequestType),
      VMType         |-> get(values, headerMap, ColVMType),
      Region         |-> cleanRegion(get(values, headerMap, ColRegion)),
      Zone           |-> get(values, headerMap, ColZone),
      Cores          |-> get(values, headerMap, ColCores),
      Status         |-> RewriteStatusPre(get(values, headerMap, ColStatus)),
      OriginalID     |-> get(values, headerMap, ColID) ]

\* Mutant of PreRow: an empty Zone defaults to N/A as on the raw branch.
PreRowZoneNA(values, headerMap, index) ==
    [ SubscriptionID |-> get(values, headerMap, ColSubscriptionID),
      RequestType    |-> get(values, headerMap, ColRequestType),
      VMType         |-> get(values, headerMap, ColVMType),
      Region         |-> cleanRegion(get(values, headerMap, ColRegion)),
      Zone           |-> IF get(values, headerMap, ColZone) = <<>> THEN NA
                         ELSE get(values, headerMap, ColZone),
      Cores          |-> get(values, headerMap, ColCores),
      Status         |-> RewriteStatusPre(get(values, headerMap, ColStatus)),
      OriginalID     |-> <<"pre-transformed-", ToString(index)>> ]

\* The callback of dataLines.map on the pre-normalized branch; index is zero-based.
PreRow(values, headerMap, index) ==
    [ SubscriptionID |-> get(values, headerMap, ColSubscriptionID),
      RequestType    |-> get(values, headerMap, ColRequestType),
      VMType         |-> get(values, headerMap, ColVMType),
      Region         |-> cleanRegion(get(values, headerMap, ColRegion)),
      Zone           |-> get(values, headerMap, ColZone),
      Cores          |-> get(values, headerMap, ColCores),
      Status         |-> RewriteStatusPre(get(values, headerMap, ColStatus)),
      OriginalID     |-> <<"pre-transformed-", ToString(index)>> ]

\* Mutant of PreRows: rows with no payload are filtered out.
PreRowsFiltered(values, headerMap) ==
    SelectSeq([i \in 1..Len(values) |-> PreRow(values[i], headerMap, i - 1)],
              LAMBDA row : ~(/\ row.SubscriptionID = <<>>
                             /\ row.VMType = <<>>
                             /\ row.Region = <<>>
                             /\ row.RequestType = <<>>))

\* dataLines.map((line, index) => { ... }) on the pre-normalized branch: values
\* holds the split values of every data line; there is no .filter
PreRows(values, headerMap) ==
    [i \in 1..Len(values) |-> PreRow(values[i], headerMap, i - 1)]

\* Mutant of RawCores: the -1 rule is tried before the AZ override.
RawCoresMinusOneFirst(originalRequestType, cores) ==
    IF cores = MinusOne THEN <<>>
    ELSE IF originalRequestType = AZEnablement THEN NA
    ELSE cores

\* Mutant of RawZone: an empty zone is kept.
RawZoneKeepEmpty(zone) == zone

\* if (originalRequestType === "AZ Enablement/Whitelisting") ... else if (cores === '-1') ...
RawCores(originalRequestType, cores) ==
    IF originalRequestType = AZEnablement THEN NA
    ELSE IF cores = MinusOne THEN <<>>
    ELSE cores

\* if (!zone) { zone = 'N/A'; }
RawZone(zone) == IF zone = <<>> THEN NA ELSE zone

\* Mutant of RawOriginalID: the ID value is preferred to the RDQuota value.
RawOriginalIDPreferID(values, headerMap) ==
    IF get(values, headerMap, ColID) # <<>>
    THEN get(values, headerMap, ColID)
    ELSE get(values, headerMap, ColRDQuota)

\* get("RDQuota") || get("ID")
RawOriginalID(values, headerMap) ==
    IF get(values, headerMap, ColRDQuota) # <<>>
    THEN get(values, headerMap, ColRDQuota)
    ELSE get(values, headerMap, ColID)

\* The callback of dataLines.map on the raw branch
RawRow(values, headerMap) ==
    LET originalRequestType == get(values, headerMap, ColUTCTicket)
    IN  [ SubscriptionID |-> get(values, headerMap, ColSubscriptionID),
          RequestType    |-> RewriteRequestType(originalRequestType),
          VMType         |-> get(values, headerMap, ColSKU),
          Region         |-> cleanRegion(get(values, headerMap, ColRegion)),
          Zone           |-> RawZone(get(values, headerMap, ColDeploymentConstraints)),
          Cores          |-> RawCores(originalRequestType, get(values, headerMap, ColEventID)),
          Status         |-> RewriteStatusRaw(get(values, headerMap, ColReason)),
          OriginalID     |-> RawOriginalID(values, headerMap) ]

\* Mutant of KeepRow: the Zone is not looked at.
KeepRowIgnoreZone(row) ==
    ~(/\ row.SubscriptionID = <<>>
      /\ row.VMType = <<>>
      /\ row.Region = <<>>
      /\ row.RequestType = <<>>)

\* The callback of .filter on the raw branch: TRUE keeps the row
KeepRow(row) ==
    LET isZoneNA == row.Zone = NA
        isRowEffectivelyEmpty == /\ row.SubscriptionID = <<>>
                                 /\ row.VMType = <<>>
                                 /\ row.Region = <<>>
                                 /\ row.RequestType = <<>>
    IN  ~(isZoneNA /\ isRowEffectivelyEmpty)

\* ----------------------------------------------------------------- groups
\* Mutant of GroupRows: a row is put at the front of its group.
RECURSIVE GroupRowsFront(_, _)
GroupRowsFront(rows, groups) ==
    IF rows = <<>> THEN [threw |-> FALSE, groups |-> groups]
    ELSE LET row == Head(rows)
             category == row.RequestType
         IN  IF category \in DOMAIN groups
             THEN GroupRowsFront(Tail(rows),
                                 [groups EXCEPT ![category] = <<row>> \o @])
             ELSE IF category \in ObjectPrototypeKeys
             THEN [threw |-> TRUE, groups |-> groups]
             ELSE GroupRowsFront(Tail(rows), groups @@ (category :> <<row>>))

\* for (const row of processedRows) { ... groups[category].push(row); }
\* groups is a plain object: groups[category] of a name of Object.prototype is the
\* inherited member (truthy, and with no push), so the push throws a TypeError.
RECURSIVE GroupRows(_, _)
GroupRows(rows, groups) ==
    IF rows = <<>> THEN [threw |-> FALSE, groups |-> groups]
    ELSE LET row == Head(rows)
             category == row.RequestType
         IN  IF category \in DOMAIN groups
             THEN GroupRows(Tail(rows),
                            [groups EXCEPT ![category] = Append(@, row)])
             ELSE IF category \in ObjectPrototypeKeys
             THEN [threw |-> TRUE, groups |-> groups]
             ELSE GroupRows(Tail(rows), groups @@ (category :> <<row>>))

\* const groups: Record<string, TransformedRow[]> = {}
EmptyGroups == [k \in {} |-> <<>>]

\* ------------------------------------------------- required-column checks
\* The checks that open the raw branch; the result is the message of the Error
\* thrown, or <<>> when none is.  headerMap.hasOwnProperty is the inherited
\* method unless a column is itself named hasOwnProperty: then it is that
\* column's index, and calling it throws a TypeError.
\* Mutant of FirstMissing: the last missing column in place of the first.
LastMissing(headerMap) ==
    LET missing == {i \in 1..Len(requiredOriginalHeaders) :
                        requiredOriginalHeaders[i] \notin DOMAIN headerMap}
    IN  IF missing = {} THEN 0 ELSE MaxOf(missing)

\* for (const reqHeader of requiredOriginalHeaders) { if (!(reqHeader in headerMap)) ... }:
\* the position of the first required column the header lacks, 0 when it has all.
FirstMissing(headerMap) ==
    LET missing == {i \in 1..Len(requiredOriginalHeaders) :
                        requiredOriginalHeaders[i] \notin DOMAIN headerMap}
    IN  IF missing = {} THEN 0 ELSE MinOf(missing)

\* Mutant of CheckRequiredHeaders: the loop over the required columns is left out.
CheckRequiredHeadersIdentifierOnly(headerMap) ==
    IF <<"hasOwnProperty">> \in DOMAIN headerMap THEN HasOwnPropertyNotAFunction
    ELSE IF ColID \notin DOMAIN headerMap /\ ColRDQuota \notin DOMAIN headerMap
    THEN MissingIdentifier
    ELSE <<>>

CheckRequiredHeaders(headerMap) ==
    IF <<"hasOwnProperty">> \in DOMAIN headerMap THEN HasOwnPropertyNotAFunction
    ELSE IF ColID \notin DOMAIN headerMap /\ ColRDQuota \notin DOMAIN headerMap
    THEN MissingIdentifier
    ELSE IF FirstMissing(headerMap) # 0
    THEN MissingColumn(requiredOriginalHeaders[FirstMissing(headerMap)])
    ELSE <<>>

\* ---------------------------------------------------------- handleTransform
\* The locals of handleTransform as its last call left them (what had not been
\* computed when it returned keeps the value below).  Three fields are
\* history: text is the rawInput the last call read, first is the text and the
\* results of the first call ever made, again tells that the last call was a
\* later call on the text of the first.
NoRun ==
    [ text |-> <<>>, first |-> Null, again |-> FALSE,
      cleanedInput |-> <<>>, lines |-> <<>>, separator |-> "", headers |-> <<>>,
      branch |-> "none", values |-> <<>>, mapped |-> <<>> ]

\* line => line.trim() !== ''
IsNotBlank(line) == Trim(line) # <<>>

\* What one call of handleTransform leaves in the state.
Outcome(err, rows, groups, locals) ==
    [ error |-> err, transformedData |-> rows, categorizedData |-> groups, run |-> locals ]

\* Mutant of GroupAndPublish: an empty row list is published like any other.
GroupAndPublishEmpty(processedRows, locals) ==
    LET g == GroupRows(processedRows, EmptyGroups)
    IN  IF g.threw
        THEN Outcome(Some(FailedToProcess(PushNotAFunction)), Null, Null, locals)
        ELSE Outcome(Null, Some(processedRows), Some(g.groups), locals)

\* Mutant of GroupAndPublish: the rows are published before the grouping loop.
GroupAndPublishRowsFirst(processedRows, locals) ==
    IF Len(processedRows) = 0
    THEN Outcome(Some(NoValidRows), Null, Null, locals)
    ELSE LET g == GroupRows(processedRows, EmptyGroups)
         IN  IF g.threw
             THEN Outcome(Some(FailedToProcess(PushNotAFunction)),
                          Some(processedRows), Null, locals)
             ELSE Outcome(Null, Some(processedRows), Some(g.groups), locals)

\* From "if (processedRows.length === 0)" to the end of the try block.
GroupAndPublish(processedRows, locals) ==
    IF Len(processedRows) = 0
    THEN Outcome(Some(NoValidRows), Null, Null, locals)
    ELSE LET g == GroupRows(processedRows, EmptyGroups)
         IN  IF g.threw
             THEN Outcome(Some(FailedToProcess(PushNotAFunction)), Null, Null, locals)
             ELSE Outcome(Null, Some(processedRows), Some(g.groups), locals)

\* The try block once lines.length >= 2.
ProcessLines(lines) ==
    LET headerLine == lines[1]
        dataLines == Tail(lines)
        separator == DetectSeparator(headerLine)
        headers == SplitFields(headerLine, separator)
        headerMap == BuildHeaderMap(headers)
        values == [i \in 1..Len(dataLines) |-> SplitFields(dataLines[i], separator)]
        locals == [ text |-> <<>>, first |-> Null, again |-> FALSE,
                    cleanedInput |-> <<>>, lines |-> lines, separator |-> separator,
                    headers |-> headers, branch |-> "none", values |-> <<>>,
                    mapped |-> <<>> ]
    IN  IF IsAlreadyTransformed(headers)
        THEN LET processedRows == PreRows(values, headerMap)
             IN  GroupAndPublish(processedRows,
                     [locals EXCEPT !.branch = "pre", !.values = values,
                                    !.mapped = processedRows])
        ELSE LET thrown == CheckRequiredHeaders(headerMap)
             IN  IF thrown # <<>>
                 THEN Outcome(Some(FailedToProcess(thrown)), Null, Null,
                              [locals EXCEPT !.branch = "raw"])
                 ELSE LET mapped == [i \in 1..Len(dataLines) |-> RawRow(values[i], headerMap)]
                          processedRows == SelectSeq(mapped, KeepRow)
                      IN  GroupAndPublish(processedRows,
                              [locals EXCEPT !.branch = "raw", !.values = values,
                                             !.mapped = mapped])

\* Mutant of IsEmptyInput: the text is tested without the trim.
IsEmptyInputNoTrim(cleanedInput) == cleanedInput = <<>>

\* Mutant of TooFewLines: a header line alone is accepted.
TooFewLinesOffByOne(lines) == Len(lines) < 1

\* !cleanedInput.trim()
IsEmptyInput(cleanedInput) == Trim(cleanedInput) = <<>>

\* lines.length < 2
TooFewLines(lines) == Len(lines) < 2

Transform(text) ==
    LET cleanedInput == cleanAzureDevOpsHeader(text)
        out == IF IsEmptyInput(cleanedInput)
               THEN Outcome(Some(EmptyInput), Null, Null, NoRun)
               ELSE LET lines == SelectSeq(SplitChar(Trim(cleanedInput), NL), IsNotBlank)
                    IN  IF TooFewLines(lines)
                        THEN Outcome(Some(MissingHeaderRow), Null, Null,
                                     [NoRun EXCEPT !.lines = lines])
                        ELSE ProcessLines(lines)
    IN  [out EXCEPT !.run.cleanedInput = cleanedInput]

\* ================================================================ inputs
\* Bounds of the input documents.
MaxDropped == 2
MaxDataLines == 2
MaxHeaderSyms == 4
MaxRegionPieces == 4

\* cells joined by a separator character
RECURSIVE Join(_, _)
Join(cells, sep) ==
    IF Len(cells) = 0 THEN <<>>
    ELSE IF Len(cells) = 1 THEN cells[1]
    ELSE cells[1] \o <<sep>> \o Join(Tail(cells), sep)

\* The sequence s without the positions in D.
RECURSIVE DropAt(_, _, _)
DropAt(s, D, i) ==
    IF i > Len(s) THEN <<>>
    ELSE (IF i \in D THEN <<>> ELSE <<s[i]>>) \o DropAt(s, D, i + 1)

DropSets(n) == {D \in SUBSET (1..n) : Cardinality(D) <= MaxDropped}

\* Column lists of a ticketing-system export and of an already normalized table.
RawBase == <<ColID, ColRDQuota>> \o requiredOriginalHeaders
PreBase == <<ColID>> \o finalHeaders

HeaderChoices ==
    {DropAt(RawBase, D, 1) : D \in DropSets(Len(RawBase))}
      \cup {DropAt(PreBase, D, 1) : D \in DropSets(Len(PreBase))}
      \cup { RawBase \o <<(<<"hasOwnProperty">>)>>,
             <<ColID, <<"hasOwnProperty">> >> \o requiredOriginalHeaders,
             RawBase \o <<ColRequestType, ColVMType, ColZone, ColCores, ColStatus>> }

\* A data row is described by the values of its cells.
RowProfiles ==
    [ utc : {AZEnablement, QuotaIncrease, <<>>, <<"constructor">>},
      event : {MinusOne, <<"8">>},
      dc : {<<>>, <<"2">>},
      payload : BOOLEAN ]

PlainRows ==
    { [utc |-> AZEnablement, event |-> MinusOne, dc |-> <<>>, payload |-> TRUE],
      [utc |-> QuotaIncrease, event |-> <<"8">>, dc |-> <<"2">>, payload |-> TRUE],
      [utc |-> <<>>, event |-> <<"8">>, dc |-> <<>>, payload |-> FALSE] }

\* The value of the cell of row p under column col.
Cell(p, col) ==
    CASE col = ColID -> <<"123">>
      [] col = ColRDQuota -> IF p.dc = <<>> THEN <<>> ELSE <<"RDQ-7">>
      [] col \in {ColUTCTicket, ColRequestType} -> p.utc
      [] col \in {ColDeploymentConstraints, ColZone} -> p.dc
      [] col \in {ColEventID, ColCores} -> p.event
      [] col \in {ColReason, ColStatus} ->
             IF "reason" \in DOMAIN p THEN p.reason
             ELSE IF p.event = MinusOne THEN VerificationSuccessful
             ELSE FulfillmentActionsCompleted
      [] col = ColSubscriptionID -> IF p.payload THEN <<"sub-1">> ELSE <<>>
      [] col \in {ColSKU, ColVMType} -> IF p.payload THEN <<"Standard_D2">> ELSE <<>>
      [] col = ColRegion ->
             IF "region" \in DOMAIN p THEN p.region
             ELSE IF p.payload THEN <<"Brazil", SP, "South", SP, LP, "SB", RP>>
             ELSE <<>>
      [] OTHER -> <<"x">>

HeaderLine(cols, sep) == Join(cols, sep)
\* The line of row p under the columns cols, without its last cut cells.
DataLine(cols, p, sep, cut) ==
    Join([i \in 1..(Len(cols) - cut) |-> Cell(p, cols[i])], sep)

Document(cols, rows, sep, cut) ==
    JoinLines(<<HeaderLine(cols, sep)>>
              \o [i \in 1..Len(rows) |->
                    DataLine(cols, rows[i], sep, IF i = Len(rows) THEN cut ELSE 0)])

\* Sequences over S of length 0..n
RECURSIVE SeqsUpTo(_, _)
SeqsUpTo(S, n) ==
    IF n = 0 THEN {<<>>}
    ELSE LET shorter == SeqsUpTo(S, n - 1)
         IN  shorter \cup {Append(t, x) : t \in shorter, x \in S}

\* Row lists: any first row, then plain rows.
RowLists ==
    {<<p>> \o rest : p \in RowProfiles, rest \in SeqsUpTo(PlainRows, MaxDataLines - 1)}

TwoPlainRows ==
    << [utc |-> AZEnablement, event |-> MinusOne, dc |-> <<>>, payload |-> TRUE],
       [utc |-> QuotaIncrease, event |-> <<"8">>, dc |-> <<"2">>, payload |-> TRUE] >>

\* Every header choice under every delimiter, with two plain rows.
HeaderDocs ==
    {Document(cols, TwoPlainRows, sep, 0) : cols \in HeaderChoices, sep \in {TAB, COMMA, SP}}

\* Complete headers with every row list, the last line whole or cut short.
RowDocs ==
    {Document(cols, rows, sep, cut) :
        cols \in {RawBase, DropAt(RawBase, {2}, 1), PreBase},
        rows \in RowLists, sep \in {TAB, COMMA}, cut \in {0, 6}}

\* Short header lines over the delimiter characters, above one data line.
DelimiterDocs ==
    {h \o <<NL, "1", TAB, "2", COMMA, "3", SP, "4">> :
        h \in SeqsUpTo({TAB, COMMA, SP, "ID"}, MaxHeaderSyms) \ {<<>>}}

Banner ==
    <<BannerPrefix, SP, BannerServer, SP, BannerQuery, SP, BannerList>>

\* Texts with and without the export banner, blank lines and missing parts.
ShapeDocs ==
    LET prefixes == { <<>>, Banner \o <<NL>>, Banner, <<SP>> \o Banner \o <<SP, NL>>,
                      <<BannerPrefix, SP, BannerServer, SP, BannerList, NL>>,
                      <<BannerServer, SP, BannerPrefix, SP, BannerQuery, SP, BannerList, NL>>,
                      <<"ID", NL>> \o Banner \o <<NL>>,
                      Banner \o <<NL>> \o Banner \o <<NL>>,
                      <<NL>>, <<SP, NL, TAB, NL>> }
        headers == {HeaderLine(RawBase, TAB), HeaderLine(PreBase, COMMA)}
        data == DataLine(RawBase, TwoPlainRows[2], TAB, 0)
        bodies == {<<>>, <<SP>>}
                    \cup headers
                    \cup {h \o <<NL>> : h \in headers}
                    \cup {h \o <<NL>> \o data : h \in headers}
                    \cup {h \o <<NL, NL, SP, NL>> \o data \o <<NL>> : h \in headers}
    IN  {p \o b : p \in prefixes, b \in bodies}

\* The request types and statuses a cell may hold: every key and every image of
\* the rewrite tables, and values the tables do not list.
RequestTypeValues ==
    { AZEnablement, RegionEnablement, WhitelistingQuotaIncrease, QuotaIncrease,
      RegionLimitIncrease, RIEnablement,
      <<"Zonal", SP, "Enablement">>, <<"Reserved", SP, "Instances">>,
      <<"AZ", SP, "Enablement">>, <<"Other">>, <<>> }

StatusValues ==
    { FulfillmentActionsCompleted, VerificationSuccessful, Abandoned, Dash,
      <<"Fulfilled">>, <<"Approved">>, <<"Backlogged">>, <<"Verification">>, <<>> }

\* One data row under a raw and under a final header, for every such value.
RewriteDocs ==
    {Document(cols, << [utc |-> u, event |-> <<"8">>, dc |-> <<"2">>,
                        payload |-> TRUE, reason |-> s] >>, sep, 0) :
        cols \in {RawBase, PreBase}, u \in RequestTypeValues, s \in StatusValues,
        sep \in {TAB, COMMA}}

\* A plain row beside lines that hold nothing but commas, or repeated after
\* blank lines.
EmptyRowDocs ==
    LET commas(cols) == [i \in 1..(Len(cols) - 1) |-> COMMA]
        line(cols, p) == DataLine(cols, p, COMMA, 0)
    IN  UNION { { JoinLines(<<HeaderLine(cols, COMMA), commas(cols)>>),
                  JoinLines(<<HeaderLine(cols, COMMA), commas(cols), line(cols, p)>>),
                  JoinLines(<<HeaderLine(cols, COMMA), line(cols, p), commas(cols)>>),
                  JoinLines(<<HeaderLine(cols, COMMA), line(cols, p), <<SP>>, <<>>,
                              line(cols, p)>>) } :
                cols \in {RawBase, PreBase}, p \in PlainRows }

\* Region cells put together from a few pieces, parentheses nested or not.
RegionPieces ==
    { <<"Brazil">>, <<SP>>, <<SP, LP, "SB", RP>>, <<SP, LP, "X">>, <<"X", RP>> }

RECURSIVE Flatten(_)
Flatten(pieces) == IF pieces = <<>> THEN <<>> ELSE Head(pieces) \o Flatten(Tail(pieces))

RegionStrings == {Flatten(ps) : ps \in SeqsUpTo(RegionPieces, MaxRegionPieces)}

RegionDocs ==
    {Document(cols, << [utc |-> QuotaIncrease, event |-> <<"8">>, dc |-> <<"2">>,
                        payload |-> TRUE, region |-> r] >>, TAB, 0) :
        cols \in {RawBase, PreBase}, r \in RegionStrings}

\* Three data rows of two request types, in every order.
GroupProfiles ==
    { [utc |-> QuotaIncrease, event |-> <<"8">>, dc |-> <<"2">>, payload |-> TRUE],
      [utc |-> QuotaIncrease, event |-> <<"8">>, dc |-> <<>>, payload |-> TRUE],
      [utc |-> RIEnablement, event |-> <<"8">>, dc |-> <<"2">>, payload |-> TRUE] }

GroupDocs ==
    {Document(cols, <<a, b, c>>, TAB, 0) :
        cols \in {RawBase, PreBase}, a \in GroupProfiles, b \in GroupProfiles,
        c \in GroupProfiles}

\* A cell as typed: bare, padded, quoted, quoted with padding outside or inside.
CellStyles == {"bare", "padded", "quoted", "paddedQuoted", "quotedPadded"}

Styled(cell, style) ==
    CASE style = "bare" -> cell
      [] style = "padded" -> <<SP>> \o cell \o <<SP>>
      [] style = "quoted" -> <<QUOTE>> \o cell \o <<QUOTE>>
      [] style = "paddedQuoted" -> <<SP, QUOTE>> \o cell \o <<QUOTE, SP>>
      [] style = "quotedPadded" -> <<QUOTE, SP>> \o cell \o <<SP, QUOTE>>

\* Comma-separated documents whose header cells and data cells are so typed.
QuoteDocs ==
    {JoinLines(<< Join([i \in 1..Len(cols) |-> Styled(cols[i], h)], COMMA),
                  Join([i \in 1..Len(cols) |-> Styled(Cell(p, cols[i]), d)], COMMA) >>) :
        cols \in {RawBase, PreBase}, h \in CellStyles, d \in CellStyles,
        p \in {TwoPlainRows[2]}}

\* One column name twice: a second column of the name c is put before or
\* after the columns of a complete header, and holds "dup" in the data line.
WithDuplicate(base, c, atFront) ==
    LET cols == IF atFront THEN <<c>> \o base ELSE base \o <<c>>
        added == IF atFront THEN 1 ELSE Len(cols)
        p == TwoPlainRows[2]
    IN  JoinLines(<< Join(cols, TAB),
                     Join([i \in 1..Len(cols) |->
                              IF i = added THEN <<"dup">> ELSE Cell(p, cols[i])], TAB) >>)

DuplicateDocs ==
    UNION { {WithDuplicate(base, base[k], atFront) : k \in 1..Len(base), atFront \in BOOLEAN} :
            base \in {RawBase, PreBase} }

Inputs ==
    HeaderDocs \cup RowDocs \cup DelimiterDocs \cup ShapeDocs
        \cup RewriteDocs \cup EmptyRowDocs \cup RegionDocs \cup GroupDocs
        \cup QuoteDocs \cup DuplicateDocs

\* The documents typed or loaded in the application runs.
AppInputs ==
    { <<>>, <<SP, NL>>,
      HeaderLine(RawBase, TAB),
      Document(RawBase, TwoPlainRows, TAB, 0),
      Document(PreBase, TwoPlainRows, COMMA, 0),
      Banner \o <<NL>> \o Document(RawBase, <<TwoPlainRows[2]>>, TAB, 0),
      Document(DropAt(RawBase, {8}, 1), TwoPlainRows, TAB, 0),
      Document(DropAt(RawBase, {1, 2}, 1), TwoPlainRows, TAB, 0),
      Document(RawBase, <<[utc |-> <<"constructor">>, event |-> <<"8">>,
                           dc |-> <<>>, payload |-> TRUE]>>, TAB, 0),
      Document(RawBase, <<[utc |-> <<>>, event |-> <<"8">>,
                           dc |-> <<>>, payload |-> FALSE]>>, TAB, 0),
      Document(RawBase, TwoPlainRows, SP, 0) }

\* =========================================================== the CopyButton
\* Bounds: the calls of handleCopy and reset timers outstanding at once, and
\* the rows of the data prop.
MaxCopies == 3
MaxCopyRows == 2

\* useState('idle'), with the props of the mount and nothing under way
CopyButtonMounted(data) ==
    /\ copyState = "idle"
    /\ copyData = data
    /\ writing = 0
    /\ writingText = 0
    /\ timers = 0
    /\ clipboard = Null

\* row[h] for the header h
Field(row, h) ==
    CASE h = ColSubscriptionID -> row.SubscriptionID
      [] h = ColRequestType -> row.RequestType
      [] h = ColVMType -> row.VMType
      [] h = ColRegion -> row.Region
      [] h = ColZone -> row.Zone
      [] h = ColCores -> row.Cores
      [] h = ColStatus -> row.Status

\* tsvString of copyTableToClipboard
TsvString(headers, data) ==
    Join(headers, TAB) \o <<NL>>
        \o JoinLines([i \in 1..Len(data) |->
                         Join([k \in 1..Len(headers) |-> Field(data[i], headers[k])], TAB)])

\* htmlString of copyTableToClipboard: the header cells and the body cells
HtmlString(headers, data) ==
    [ thead |-> headers,
      tbody |-> [i \in 1..Len(data) |->
                    [k \in 1..Len(headers) |-> Field(data[i], headers[k])]] ]

\* The rows a mounted button may be given.
CopyRows ==
    { RawRow(SplitFields(DataLine(RawBase, p, TAB, 0), TAB), BuildHeaderMap(RawBase)) :
        p \in {TwoPlainRows[1], TwoPlainRows[2]} }

CopyDataChoices == SeqsUpTo(CopyRows, MaxCopyRows)

\* setCopyState(success ? 'success' : 'error'); setTimeout(() => setCopyState('idle'), 2500)
FinishCopy(success) ==
    /\ copyState' = IF success THEN "success" ELSE "error"
    /\ timers' = timers + 1

\* A click on the button: handleCopy up to its await.  The ClipboardItem is
\* built and clipboard.write called, or building it throws and
\* clipboard.writeText is called.
HandleCopy ==
    /\ writing + writingText + timers < MaxCopies
    /\ IF copyState # "idle" \/ Len(copyData) = 0
       THEN UNCHANGED <<writing, writingText>>
       ELSE \/ writing' = writing + 1 /\ UNCHANGED writingText
            \/ writingText' = writingText + 1 /\ UNCHANGED writing
    /\ UNCHANGED <<copyState, copyData, timers, clipboard>>
    /\ UNCHANGED appVars

\* await navigator.clipboard.write([clipboardItem]) resolves
WriteResolves ==
    /\ writing > 0
    /\ writing' = writing - 1
    /\ clipboard' = Some([ html |-> Some(HtmlString(finalHeaders, copyData)),
                           text |-> TsvString(finalHeaders, copyData) ])
    /\ FinishCopy(TRUE)
    /\ UNCHANGED <<copyData, writingText>>
    /\ UNCHANGED appVars

\* await navigator.clipboard.write([clipboardItem]) rejects: the catch block
\* calls clipboard.writeText
WriteRejects ==
    /\ writing > 0
    /\ writing' = writing - 1
    /\ writingText' = writingText + 1
    /\ UNCHANGED <<copyState, copyData, timers, clipboard>>
    /\ UNCHANGED appVars

\* await navigator.clipboard.writeText(tsvString) resolves
WriteTextResolves ==
    /\ writingText > 0
    /\ writingText' = writingText - 1
    /\ clipboard' = Some([ html |-> Null, text |-> TsvString(finalHeaders, copyData) ])
    /\ FinishCopy(TRUE)
    /\ UNCHANGED <<copyData, writing>>
    /\ UNCHANGED appVars

\* await navigator.clipboard.writeText(tsvString) rejects
WriteTextRejects ==
    /\ writingText > 0
    /\ writingText' = writingText - 1
    /\ FinishCopy(FALSE)
    /\ UNCHANGED <<copyData, writing, clipboard>>
    /\ UNCHANGED appVars

\* The callback of setTimeout runs: setCopyState('idle')
TimerFires ==
    /\ timers > 0
    /\ timers' = timers - 1
    /\ copyState' = "idle"
    /\ UNCHANGED <<copyData, writing, writingText, clipboard>>
    /\ UNCHANGED appVars

\* A button mounted over any of the data choices.
InitCopy ==
    /\ rawInput = <<>>
    /\ categorizedData = Null
    /\ transformedData = Null
    /\ error = Null
    /\ unifiedView = "none"
    /\ run = NoRun
    /\ \E data \in CopyDataChoices : CopyButtonMounted(data)

NextCopy ==
    \/ HandleCopy
    \/ WriteResolves
    \/ WriteRejects
    \/ WriteTextResolves
    \/ WriteTextRejects
    \/ TimerFires

SpecCopy == InitCopy /\ [][NextCopy]_vars

\* A timer that was set fires (after 2500 ms).
SpecCopyFair == SpecCopy /\ WF_vars(TimerFires)

\* ============================================================== the App
\* The state after construction (the useState initial values).  isUploadModalOpen
\* starts false and no handler of App sets it to true, so UploadModal is never
\* mounted and handleDataUploadedFromModal never runs: neither is modelled.
Init ==
    /\ rawInput = <<>>
    /\ categorizedData = Null
    /\ transformedData = Null
    /\ error = Null
    /\ unifiedView = "none"
    /\ run = NoRun
    /\ CopyButtonMounted(<<>>)

\* What a call of handleTransform on text published.
Published(text, r) ==
    [ text |-> text, error |-> r.error, transformedData |-> r.transformedData,
      categorizedData |-> r.categorizedData ]

\* The history fields of run after a call that read text and ended as r.
Remember(text, r) ==
    [r.run EXCEPT !.text = text,
                  !.first = IF run.first = Null THEN Some(Published(text, r))
                            ELSE run.first,
                  !.again = run.first # Null /\ run.first[1].text = text]

\* Mutant of HandleTransform: setError(null) is left out, so that the error of
\* an earlier call stays when the call sets none.
HandleTransformKeepError ==
    LET r == Transform(rawInput)
    IN  /\ error' = IF r.error = Null THEN error ELSE r.error
        /\ categorizedData' = r.categorizedData
        /\ transformedData' = r.transformedData
        /\ unifiedView' = "none"
        /\ run' = Remember(rawInput, [r EXCEPT !.error = IF r.error = Null THEN error
                                                          ELSE r.error])
        /\ UNCHANGED rawInput
        /\ UNCHANGED copyVars

\* onClick of the Transform button
HandleTransform ==
    LET r == Transform(rawInput)
    IN  /\ error' = r.error
        /\ categorizedData' = r.categorizedData
        /\ transformedData' = r.transformedData
        /\ unifiedView' = "none"
        /\ run' = Remember(rawInput, r)
        /\ UNCHANGED rawInput
        /\ UNCHANGED copyVars

\* onClick of the Clear button
HandleClear ==
    /\ rawInput' = <<>>
    /\ categorizedData' = Null
    /\ transformedData' = Null
    /\ error' = Null
    /\ unifiedView' = "none"
    /\ UNCHANGED run
    /\ UNCHANGED copyVars

\* onDataLoaded of DataInputCard
HandleDataLoaded(data) ==
    /\ rawInput' = data
    /\ categorizedData' = Null
    /\ transformedData' = Null
    /\ error' = Null
    /\ unifiedView' = "none"
    /\ UNCHANGED run
    /\ UNCHANGED copyVars

\* Mutant of SetRawInput: an edit also leaves the full view.
SetRawInputResetsView(text) ==
    /\ rawInput' = text
    /\ unifiedView' = "none"
    /\ UNCHANGED <<categorizedData, transformedData, error, run>>
    /\ UNCHANGED copyVars

\* onChange of the textarea
SetRawInput(text) ==
    /\ rawInput' = text
    /\ UNCHANGED <<categorizedData, transformedData, error, unifiedView, run>>
    /\ UNCHANGED copyVars

\* Mutant of ShowFullView: the button is rendered whatever transformedData is.
ShowFullViewAlways ==
    /\ unifiedView' = "full"
    /\ UNCHANGED <<rawInput, categorizedData, transformedData, error, run>>
    /\ UNCHANGED copyVars

\* onClick of "List by RDQuotas", rendered only while transformedData is set
ShowFullView ==
    /\ transformedData # Null
    /\ unifiedView' = "full"
    /\ UNCHANGED <<rawInput, categorizedData, transformedData, error, run>>
    /\ UNCHANGED copyVars

Next ==
    \/ HandleTransform
    \/ HandleClear
    \/ \E data \in AppInputs : HandleDataLoaded(data)
    \/ \E text \in AppInputs : SetRawInput(text)
    \/ ShowFullView

Spec == Init /\ [][Next]_vars

\* ------------------------------------------- the transform on every input
\* One Transform of each input document: the state before the click holds any
\* document of Inputs and no result.
InitTransform ==
    /\ rawInput \in Inputs
    /\ categorizedData = Null
    /\ transformedData = Null
    /\ error = Null
    /\ unifiedView = "none"
    /\ run = NoRun
    /\ CopyButtonMounted(<<>>)

NextTransform ==
    \/ HandleTransform
    \/ ShowFullView

SpecTransform == InitTransform /\ [][NextTransform]_vars

\* ================================================================ claims
\* The formulas of SpecTransform speak of the state one Transform click after
\* the document was entered: rawInput is the document, run the call's locals.
Transformed == error # Null \/ transformedData # Null

\* The header was split: the call got as far as the schema classification.
Classified == Len(run.headers) > 0

HeaderNames == Range(run.headers)

FinalNames ==
    { ColSubscriptionID, ColRequestType, ColVMType, ColRegion, ColZone, ColCores, ColStatus }

Placeholder(i) == <<"pre-transformed-", ToString(i)>>

\* C1: the pre-normalized branch runs exactly when all seven final names are
\* among the split header names, otherwise the raw branch runs; and every data
\* line goes through that one branch (on the pre-normalized branch each line
\* gets its positional Original ID, on the raw branch none does).
C1_SchemaClassification ==
    Classified =>
        /\ run.branch = (IF FinalNames \subseteq HeaderNames THEN "pre" ELSE "raw")
        /\ run.branch = "pre" =>
              /\ Len(run.mapped) = Len(run.lines) - 1
              /\ \A i \in 1..Len(run.mapped) : run.mapped[i].OriginalID = Placeholder(i - 1)
        /\ run.branch = "raw" =>
              /\ Len(run.mapped) \in {0, Len(run.lines) - 1}
              /\ \A i \in 1..Len(run.mapped) :
                    run.mapped[i].OriginalID # Placeholder(i - 1)

\* A pre-normalized document of two data lines was transformed.
C1_Witness ==
    /\ run.branch = "pre"
    /\ transformedData # Null
    /\ Len(run.mapped) = 2
    /\ ColID \in HeaderNames

TabCount == Cardinality({i \in 1..Len(run.lines[1]) : run.lines[1][i] = TAB})
CommaCount == Cardinality({i \in 1..Len(run.lines[1]) : run.lines[1][i] = COMMA})

\* The fields of a line split by sep: one more than the separators of the line
\* (for the whitespace run: no field holds a whitespace character).
SplitBy(fields, line, sep) ==
    IF sep = WhitespaceRun
    THEN \A k \in 1..Len(fields) : \A j \in 1..Len(fields[k]) : ~IsSpace(fields[k][j])
    ELSE /\ Len(fields) = Cardinality({j \in 1..Len(line) : line[j] = sep}) + 1
         /\ \A k \in 1..Len(fields) : sep \notin Range(fields[k])

\* C2: the delimiter follows from the header line's tab count t and comma count c
\* alone (Tab when t > c, Comma when c > 0 and t <= c, WhitespaceRun when both
\* are 0), and the header line and every data line are split by that choice.
C2_DelimiterDetection ==
    Classified =>
        /\ TabCount > CommaCount => run.separator = TAB
        /\ (CommaCount > 0 /\ TabCount <= CommaCount) => run.separator = COMMA
        /\ (TabCount = 0 /\ CommaCount = 0) => run.separator = WhitespaceRun
        /\ SplitBy(run.headers, run.lines[1], run.separator)
        /\ \A i \in 1..Len(run.values) :
              SplitBy(run.values[i], run.lines[i + 1], run.separator)

\* A header with as many tabs as commas was split by the comma.
C2_Witness ==
    /\ Classified
    /\ TabCount = CommaCount
    /\ TabCount > 0
    /\ run.separator = COMMA

RequiredNames == Range(requiredOriginalHeaders)

\* The identifier check of the raw branch returns without throwing.
IdentifierCheckPasses ==
    /\ ColID \in HeaderNames \/ ColRDQuota \in HeaderNames
    /\ <<"hasOwnProperty">> \notin HeaderNames

\* C3 as stated: on the raw branch a header that lacks the required column X
\* fails with the error that names X, whatever else is present or absent.
C3_Original ==
    \A X \in RequiredNames :
        (run.branch = "raw" /\ X \notin HeaderNames) =>
            error = Some(FailedToProcess(MissingColumn(X)))

\* C3 amended: on the raw branch, when the identifier check passes, the error
\* names the required column X if the header lacks X and has every required
\* column listed before X; whenever a required column is missing the transform
\* fails with an error and publishes neither rows nor groups.
C3_MissingRequiredColumn ==
    \A x \in 1..Len(requiredOriginalHeaders) :
        (run.branch = "raw" /\ requiredOriginalHeaders[x] \notin HeaderNames) =>
            /\ error # Null
            /\ transformedData = Null
            /\ categorizedData = Null
            /\ ( /\ IdentifierCheckPasses
                 /\ \A y \in 1..(x - 1) : requiredOriginalHeaders[y] \in HeaderNames )
               => error = Some(FailedToProcess(MissingColumn(requiredOriginalHeaders[x])))

\* A raw header without SKU (and with Region also missing) failed naming SKU.
C3_Witness ==
    /\ run.branch = "raw"
    /\ ColSKU \notin HeaderNames
    /\ ColRegion \notin HeaderNames
    /\ error = Some(FailedToProcess(MissingColumn(ColSKU)))

\* C4 as stated: on the raw branch a header with neither ID nor RDQuota fails
\* with an error, and a header with at least one of them passes the identifier
\* check (the check raises nothing).
C4_IdentifierCheck ==
    run.branch = "raw" =>
        /\ (ColID \notin HeaderNames /\ ColRDQuota \notin HeaderNames) =>
              (error # Null /\ transformedData = Null /\ categorizedData = Null)
        /\ (ColID \in HeaderNames \/ ColRDQuota \in HeaderNames) =>
              error \notin { Some(FailedToProcess(MissingIdentifier)),
                             Some(FailedToProcess(HasOwnPropertyNotAFunction)) }

\* The lines of the text after banner stripping that are not blank.
NonBlankLineCount ==
    LET ls == SplitChar(cleanAzureDevOpsHeader(rawInput), NL)
    IN  Cardinality({i \in 1..Len(ls) : \E j \in 1..Len(ls[i]) : ~IsSpace(ls[i][j])})

\* C5: when exactly one non-blank line remains after banner stripping (a header
\* with no data line), the transform ends with MissingHeaderRow, with no rows
\* and no groups, before the header is split or any column is checked.
C5_MissingHeaderRow ==
    (Transformed /\ NonBlankLineCount = 1) =>
        /\ error = Some(MissingHeaderRow)
        /\ transformedData = Null
        /\ categorizedData = Null
        /\ run.branch = "none"
        /\ ~Classified

\* A banner followed by the header of a normalized table alone was rejected.
C5_Witness ==
    /\ Transformed
    /\ NonBlankLineCount = 1
    /\ Len(rawInput) > 0
    /\ rawInput[1] = BannerPrefix
    /\ "Status" \in Range(rawInput)
    /\ error = Some(MissingHeaderRow)

\* Nothing but whitespace is left of the text after banner stripping.
NoContent ==
    LET c == cleanAzureDevOpsHeader(rawInput)
    IN  \A i \in 1..Len(c) : IsSpace(c[i])

\* C6: an input with no content after trimming (empty, whitespace only, or the
\* banner line alone) ends with EmptyInput, with no rows and no groups.
C6_EmptyInput ==
    (Transformed /\ NoContent) =>
        /\ error = Some(EmptyInput)
        /\ transformedData = Null
        /\ categorizedData = Null

\* The banner line followed by whitespace alone was rejected as empty.
C6_Witness ==
    /\ rawInput = Banner \o <<NL, SP>>
    /\ error = Some(EmptyInput)

\* C7: in every state of the application, an error set means no rows and no
\* groups are set.
C7_AllOrNothing ==
    error # Null => (transformedData = Null /\ categorizedData = Null)

\* A transform failed in the grouping loop, after its rows had been built.
C7_Witness ==
    /\ error = Some(FailedToProcess(PushNotAFunction))
    /\ Len(run.mapped) > 0
    /\ transformedData = Null

\* C8 as stated: once the document-level checks pass (the data lines were
\* split into records), the only failure left is NoValidRows.
C8_NoLineLevelError ==
    Len(run.values) > 0 => error \in {Null, Some(NoValidRows)}

\* The zero-based index the header lookup gives col: its last occurrence.
IndexOf(col) == MaxOf({k \in 1..Len(run.headers) : run.headers[k] = col}) - 1

\* What data line i holds under column col ("" when the line is too short).
ValueOf(i, col) ==
    IF IndexOf(col) < Len(run.values[i]) THEN Trim(run.values[i][IndexOf(col) + 1]) ELSE <<>>

\* C9: on the raw branch the Cores of every data line is "N/A" when its UTC
\* Ticket is "AZ Enablement/Whitelisting" (whatever its Event ID), otherwise ""
\* when its Event ID is "-1", otherwise its Event ID.
C9_RawCores ==
    run.branch = "raw" =>
        \A i \in 1..Len(run.mapped) :
            run.mapped[i].Cores =
                IF ValueOf(i, ColUTCTicket) = <<"AZ", " ", "Enablement/Whitelisting">>
                THEN <<"N/A">>
                ELSE IF ValueOf(i, ColEventID) = <<"-1">> THEN <<>>
                ELSE ValueOf(i, ColEventID)

\* An AZ line with Event ID -1 was given Cores N/A in a published row.
C9_Witness ==
    /\ run.branch = "raw"
    /\ transformedData # Null
    /\ \E i \in 1..Len(run.mapped) :
          /\ ValueOf(i, ColUTCTicket) = AZEnablement
          /\ ValueOf(i, ColEventID) = MinusOne
          /\ run.mapped[i].Cores = NA
          /\ run.mapped[i] \in Range(transformedData[1])

\* C10: on the raw branch the Zone of every data line is "N/A" when its
\* Deployment Constraints value is empty or absent and that value otherwise;
\* no published row of the raw branch has an empty Zone.
C10_RawZone ==
    run.branch = "raw" =>
        /\ \A i \in 1..Len(run.mapped) :
              run.mapped[i].Zone =
                  IF ValueOf(i, ColDeploymentConstraints) = <<>> THEN <<"N/A">>
                  ELSE ValueOf(i, ColDeploymentConstraints)
        /\ transformedData # Null =>
              \A k \in 1..Len(transformedData[1]) : transformedData[1][k].Zone # <<>>

\* A line too short to hold Deployment Constraints was published with Zone N/A,
\* beside a line that kept its own zone.
C10_Witness ==
    /\ run.branch = "raw"
    /\ transformedData # Null
    /\ \E i \in 1..Len(run.mapped) :
          /\ IndexOf(ColDeploymentConstraints) >= Len(run.values[i])
          /\ run.mapped[i].Zone = NA
          /\ run.mapped[i] \in Range(transformedData[1])
    /\ \E i \in 1..Len(run.mapped) : run.mapped[i].Zone = <<"2">>

\* ---------------------------------------------------------------- defaults
\* Data line i has no value under column col: the header has no such column,
\* the line is too short to reach it, or the cell is empty.
NoValue(i, col) ==
    \/ col \notin HeaderNames
    \/ ValueOf(i, col) = <<>>

\* The rows of the last call are those of a successful transform.
Succeeded == transformedData # Null /\ error = Null

\* The fields other than Zone of row i are "" when their source has no value
\* (Cores is N/A under the AZ override, whatever the source holds).
OtherFieldsDefaultEmpty(i) ==
    LET row == run.mapped[i]
        src(pre, raw) == IF run.branch = "pre" THEN pre ELSE raw
    IN  /\ NoValue(i, ColSubscriptionID) => row.SubscriptionID = <<>>
        /\ NoValue(i, src(ColRequestType, ColUTCTicket)) => row.RequestType = <<>>
        /\ NoValue(i, src(ColVMType, ColSKU)) => row.VMType = <<>>
        /\ NoValue(i, ColRegion) => row.Region = <<>>
        /\ NoValue(i, src(ColStatus, ColReason)) => row.Status = <<>>
        /\ NoValue(i, src(ColCores, ColEventID)) =>
               row.Cores = IF run.branch = "raw" /\ ~NoValue(i, ColUTCTicket)
                              /\ ValueOf(i, ColUTCTicket) = AZEnablement
                           THEN <<"N/A">> ELSE <<>>
        /\ run.branch = "raw" /\ NoValue(i, ColRDQuota) /\ NoValue(i, ColID) =>
               row.OriginalID = <<>>

\* C11 as stated: after a successful transform on either branch, every field
\* with no source value is "" except Zone, which is "N/A"; no output row has
\* an empty Zone.
C11_Original ==
    Succeeded =>
        /\ \A i \in 1..Len(run.mapped) :
              /\ OtherFieldsDefaultEmpty(i)
              /\ NoValue(i, IF run.branch = "pre" THEN ColZone
                            ELSE ColDeploymentConstraints) =>
                     run.mapped[i].Zone = <<"N/A">>
        /\ \A k \in 1..Len(transformedData[1]) : transformedData[1][k].Zone # <<>>

\* C11: after a successful transform every field with no source value is "";
\* the exception is Zone on the raw branch, which is "N/A" there, so that no
\* raw output row has an empty Zone, while on the pre-normalized branch a Zone
\* with no source value is "" like every other field.
C11_FieldDefaults ==
    Succeeded =>
        \A i \in 1..Len(run.mapped) :
            /\ OtherFieldsDefaultEmpty(i)
            /\ run.branch = "raw" =>
                   /\ NoValue(i, ColDeploymentConstraints) => run.mapped[i].Zone = <<"N/A">>
                   /\ run.mapped[i].Zone # <<>>
            /\ run.branch = "pre" =>
                   (NoValue(i, ColZone) => run.mapped[i].Zone = <<>>)

\* A pre-normalized line with no Zone was published with an empty Zone, and
\* one line of the run was too short to hold every column.
C11_Witness ==
    /\ Succeeded
    /\ run.branch = "pre"
    /\ \E i \in 1..Len(run.mapped) :
          /\ ValueOf(i, ColZone) = <<>>
          /\ transformedData[1][i].Zone = <<>>
    /\ \E i \in 1..Len(run.mapped) : Len(run.values[i]) < Len(run.headers)

\* ----------------------------------------------------------- rewrite rules
\* The request-type table as the specification lists it.
RequestTypeTable(ticket) ==
    CASE ticket = <<"AZ", " ", "Enablement/Whitelisting">> -> <<"Zonal", " ", "Enablement">>
      [] ticket = <<"Region", " ", "Enablement/Whitelisting">> -> <<"Region", " ", "Enablement">>
      [] ticket = <<"Whitelisting/Quota", " ", "Increase">> ->
             <<"Region", " ", "Enablement", " ", "&", " ", "Quota", " ", "Increase">>
      [] ticket = <<"Quota", " ", "Increase">> -> <<"Quota", " ", "Increase">>
      [] ticket = <<"Region", " ", "Limit", " ", "Increase">> ->
             <<"Region", " ", "Limit", " ", "Increase">>
      [] ticket = <<"RI", " ", "Enablement/Whitelisting">> -> <<"Reserved", " ", "Instances">>
      [] OTHER -> ticket

\* C12: on the raw branch the Request Type of every data line is the table
\* image of its UTC Ticket value when the table lists that exact value, and
\* the UTC Ticket value unchanged otherwise.
C12_RequestTypeRewrite ==
    run.branch = "raw" =>
        \A i \in 1..Len(run.mapped) :
            run.mapped[i].RequestType = RequestTypeTable(ValueOf(i, ColUTCTicket))

\* An RI ticket was published as Reserved Instances.
C12_Witness ==
    /\ run.branch = "raw"
    /\ Succeeded
    /\ \E i \in 1..Len(run.mapped) :
          /\ ValueOf(i, ColUTCTicket) = RIEnablement
          /\ run.mapped[i].RequestType = <<"Reserved", SP, "Instances">>
          /\ run.mapped[i] \in Range(transformedData[1])
          /\ <<"Reserved", SP, "Instances">> \in DOMAIN categorizedData[1]

\* The status lookup both branches share, as the specification lists it.
SharedStatusTable(status) ==
    CASE status = <<"Verification", " ", "Successful">> -> <<"Approved">>
      [] status = <<"Abandoned">> -> <<"Backlogged">>
      [] status = <<"-">> -> <<"Pending", " ", "Customer", " ", "Response">>
      [] OTHER -> status

\* C13: the Status of every data line is a lookup of its source status (Status
\* on the pre-normalized branch, Reason on the raw branch): Verification
\* Successful, Abandoned and "-" are rewritten alike on both branches,
\* Fulfillment Actions Completed becomes Fulfilled on the raw branch only, and
\* every other value passes through unchanged.
C13_StatusRewrite ==
    /\ run.branch = "pre" =>
           \A i \in 1..Len(run.mapped) :
               run.mapped[i].Status = SharedStatusTable(ValueOf(i, ColStatus))
    /\ run.branch = "raw" =>
           \A i \in 1..Len(run.mapped) :
               run.mapped[i].Status =
                   IF ValueOf(i, ColReason) = <<"Fulfillment", " ", "Actions", " ", "Completed">>
                   THEN <<"Fulfilled">>
                   ELSE SharedStatusTable(ValueOf(i, ColReason))

\* A pre-normalized line was published with Fulfillment Actions Completed kept.
C13_Witness ==
    /\ run.branch = "pre"
    /\ Succeeded
    /\ \E i \in 1..Len(run.mapped) :
          /\ ValueOf(i, ColStatus) = FulfillmentActionsCompleted
          /\ transformedData[1][i].Status = FulfillmentActionsCompleted

\* ------------------------------------------------------------ row identity
\* C14: on the raw branch the Original ID of every data line is its RDQuota
\* value when the header has an RDQuota column and the line holds a non-empty
\* value under it; otherwise it is the line's ID value, "" when the header has
\* no ID column or the line holds nothing under it.
C14_RawOriginalID ==
    run.branch = "raw" =>
        \A i \in 1..Len(run.mapped) :
            run.mapped[i].OriginalID =
                IF ColRDQuota \in HeaderNames /\ ValueOf(i, ColRDQuota) # <<>>
                THEN ValueOf(i, ColRDQuota)
                ELSE IF ColID \in HeaderNames THEN ValueOf(i, ColID)
                ELSE <<>>

\* Of two published lines with an ID, one took its RDQuota value and the
\* other, with an empty RDQuota cell, its ID value.
C14_Witness ==
    /\ run.branch = "raw"
    /\ Succeeded
    /\ {ColID, ColRDQuota} \subseteq HeaderNames
    /\ \E i, j \in 1..Len(run.mapped) :
          /\ ValueOf(i, ColRDQuota) = <<"RDQ-7">>
          /\ ValueOf(i, ColID) = <<"123">>
          /\ run.mapped[i].OriginalID = <<"RDQ-7">>
          /\ ValueOf(j, ColRDQuota) = <<>>
          /\ run.mapped[j].OriginalID = <<"123">>
          /\ {run.mapped[i], run.mapped[j]} \subseteq Range(transformedData[1])

\* C15: on the pre-normalized branch the Original ID of the i-th non-blank data
\* line, counted from zero, is "pre-transformed-<i>", whatever the line holds
\* under an ID or RDQuota column; the Original IDs of the published rows are
\* pairwise distinct.
C15_PositionalOriginalID ==
    run.branch = "pre" =>
        /\ Len(run.mapped) = Len(run.lines) - 1
        /\ \A i \in 1..Len(run.mapped) :
              /\ run.mapped[i].OriginalID = <<"pre-transformed-", ToString(i - 1)>>
              /\ ColID \in HeaderNames /\ ValueOf(i, ColID) # <<>> =>
                     run.mapped[i].OriginalID # ValueOf(i, ColID)
        /\ transformedData # Null =>
              \A j, k \in 1..Len(transformedData[1]) :
                  j # k => transformedData[1][j].OriginalID # transformedData[1][k].OriginalID

\* Two lines with the same ID value, blank lines between them, were published
\* under the placeholders 0 and 1.
C15_Witness ==
    /\ run.branch = "pre"
    /\ Succeeded
    /\ ColID \in HeaderNames
    /\ Len(transformedData[1]) = 2
    /\ run.values[1] = run.values[2]
    /\ ValueOf(1, ColID) = <<"123">>
    /\ transformedData[1][1].OriginalID = <<"pre-transformed-", "0">>
    /\ transformedData[1][2].OriginalID = <<"pre-transformed-", "1">>

\* ------------------------------------------------------------- row filter
\* The rows the specification says are dropped.
CarriesNoPayload(row) ==
    /\ row.Zone = <<"N/A">>
    /\ row.SubscriptionID = <<>>
    /\ row.VMType = <<>>
    /\ row.Region = <<>>
    /\ row.RequestType = <<>>

\* The rows of every group, as a set.
GroupedRows ==
    UNION {Range(categorizedData[1][k]) : k \in DOMAIN categorizedData[1]}

\* C16: after a successful raw transform the flat rows are the transformed
\* rows of the data lines, in order, less exactly those with Zone "N/A" and
\* empty Subscription ID, VM Type, Region and Request Type; no such row is in
\* the flat rows or in a group.
C16_RawFilter ==
    run.branch = "raw" /\ Succeeded =>
        /\ transformedData[1] = SelectSeq(run.mapped, LAMBDA row : ~CarriesNoPayload(row))
        /\ \A row \in Range(transformedData[1]) \cup GroupedRows : ~CarriesNoPayload(row)

\* A line with no payload was dropped from a published result that kept a
\* line whose only content is its zone.
C16_Witness ==
    /\ run.branch = "raw"
    /\ Succeeded
    /\ \E i \in 1..Len(run.mapped) :
          /\ CarriesNoPayload(run.mapped[i])
          /\ run.mapped[i] \notin Range(transformedData[1]) \cup GroupedRows
    /\ \E row \in Range(transformedData[1]) :
          /\ row.Zone = <<"2">>
          /\ row.SubscriptionID = <<>> /\ row.VMType = <<>>
          /\ row.Region = <<>> /\ row.RequestType = <<>>

\* C17: whenever a pre-normalized transform succeeds, the flat rows are one
\* row per non-blank data line, in the order of the lines (row i carries the
\* placeholder and the values of line i), lines with no field value included.
C17_PreRowsUnfiltered ==
    run.branch = "pre" /\ Succeeded =>
        /\ Len(transformedData[1]) = Len(run.lines) - 1
        /\ \A i \in 1..Len(transformedData[1]) :
              /\ transformedData[1][i].OriginalID = Placeholder(i - 1)
              /\ transformedData[1][i].SubscriptionID = ValueOf(i, ColSubscriptionID)
              /\ transformedData[1][i].RequestType = ValueOf(i, ColRequestType)
              /\ transformedData[1][i].VMType = ValueOf(i, ColVMType)
              /\ transformedData[1][i].Zone = ValueOf(i, ColZone)
              /\ transformedData[1][i].Cores = ValueOf(i, ColCores)

\* A pre-normalized line of nothing but commas was published, every field
\* empty, after a line with values.
C17_Witness ==
    /\ run.branch = "pre"
    /\ Succeeded
    /\ Len(transformedData[1]) = 2
    /\ transformedData[1][1].SubscriptionID # <<>>
    /\ \A cell \in Range(run.values[2]) : cell = <<>>
    /\ LET row == transformedData[1][2]
       IN  /\ row.SubscriptionID = <<>> /\ row.RequestType = <<>> /\ row.VMType = <<>>
           /\ row.Region = <<>> /\ row.Zone = <<>> /\ row.Cores = <<>>
           /\ row.Status = <<>>

\* ------------------------------------------------------------ empty result
\* C18: when the filter leaves no row, the transform ends with the NoValidRows
\* message and publishes neither rows nor groups; a transform that publishes
\* rows publishes at least one row and at least one group.
C18_NoValidRows ==
    /\ run.branch = "raw" /\ Len(run.mapped) > 0
           /\ (\A i \in 1..Len(run.mapped) : CarriesNoPayload(run.mapped[i])) =>
           /\ error = Some(<<"No valid data rows could be processed. Please check your input.">>)
           /\ transformedData = Null
           /\ categorizedData = Null
    /\ transformedData # Null =>
           /\ Len(transformedData[1]) >= 1
           /\ categorizedData # Null
           /\ DOMAIN categorizedData[1] # {}
           /\ \A k \in DOMAIN categorizedData[1] : Len(categorizedData[1][k]) >= 1

\* Every line of a raw document was dropped and the run ended with NoValidRows.
C18_Witness ==
    /\ run.branch = "raw"
    /\ Len(run.mapped) >= 1
    /\ \A i \in 1..Len(run.mapped) : ~KeepRow(run.mapped[i])
    /\ error = Some(NoValidRows)
    /\ transformedData = Null /\ categorizedData = Null

\* ---------------------------------------------------------------- grouping
\* C19: after a successful transform the keys of the groups are exactly the
\* Request Type values of the flat rows, the group of a key is the flat rows
\* with that Request Type in their flat order, and the sizes of the groups add
\* up to the number of flat rows.
C19_GroupingPartition ==
    Succeeded =>
        LET rows == transformedData[1]
            groups == categorizedData[1]
        IN  /\ DOMAIN groups = {rows[i].RequestType : i \in 1..Len(rows)}
            /\ \A k \in DOMAIN groups :
                  groups[k] = SelectSeq(rows, LAMBDA row : row.RequestType = k)
            /\ Cardinality(UNION {{<<k, j>> : j \in 1..Len(groups[k])} : k \in DOMAIN groups})
                  = Len(rows)

\* Three rows were published, the first and the third of one request type and
\* different, the second of another: two groups, the first holding rows 1 and
\* 3 in that order.
C19_Witness ==
    /\ Succeeded
    /\ Len(transformedData[1]) = 3
    /\ LET rows == transformedData[1]
           groups == categorizedData[1]
       IN  /\ rows[1].RequestType = <<"Quota", SP, "Increase">>
           /\ rows[2].RequestType = <<"Reserved", SP, "Instances">>
           /\ rows[1] # rows[3]
           /\ Cardinality(DOMAIN groups) = 2
           /\ groups[rows[1].RequestType] = <<rows[1], rows[3]>>
           /\ groups[rows[2].RequestType] = <<rows[2]>>

\* ----------------------------------------------------------- region cleaning
\* C20: cleaning a cleaned region changes nothing: for the Region value r of
\* every data line, cleanRegion(cleanRegion(r)) = cleanRegion(r), the Region
\* of the line's row being cleanRegion(r).
C20_CleanRegionIdempotent ==
    run.branch \in {"pre", "raw"} =>
        \A i \in 1..Len(run.mapped) :
            /\ run.mapped[i].Region = cleanRegion(ValueOf(i, ColRegion))
            /\ cleanRegion(cleanRegion(ValueOf(i, ColRegion)))
                  = cleanRegion(ValueOf(i, ColRegion))

\* ------------------------------------------------------------ split fields
\* A field with no whitespace at either end and no double quote anywhere.
IsCleanField(field) ==
    /\ field # <<>> => ~IsSpace(field[1]) /\ ~IsSpace(field[Len(field)])
    /\ \A i \in 1..Len(field) : field[i] # QUOTE

\* C21: once the lines are split, every header name and every field of every
\* data line has no whitespace at either end and holds no double quote.
C21_SplitFieldsClean ==
    Classified =>
        /\ \A k \in 1..Len(run.headers) : IsCleanField(run.headers[k])
        /\ \A i \in 1..Len(run.values) :
              \A k \in 1..Len(run.values[i]) : IsCleanField(run.values[i][k])

\* --------------------------------------------------------- header stripping
\* Where line 0 of the raw text ends: the place of its first line break, one
\* past the end of the text when it has none.
FirstLineEnd ==
    MinOf({n \in 1..(Len(rawInput) + 1) : n = Len(rawInput) + 1 \/ rawInput[n] = NL})

\* Line 0 of the raw text, trimmed, starts with the prefix and holds the three parts.
FirstLineIsBanner ==
    LET firstLine == Trim(SubSeq(rawInput, 1, FirstLineEnd - 1))
    IN  /\ firstLine # <<>>
        /\ firstLine[1] = "Project: Quota"
        /\ \E k \in 1..Len(firstLine) :
              firstLine[k] = "Server: https://dev.azure.com/capacityrequest"
        /\ \E k \in 1..Len(firstLine) : firstLine[k] = "Query: [None]"
        /\ \E k \in 1..Len(firstLine) : firstLine[k] = "List type: Flat"

\* C22: the text handed on by the header stripping is the raw text without its
\* line 0 (and that line's break) exactly when line 0 is the banner, and the
\* raw text itself in every other case; never more than line 0 is removed.
C22_HeaderStripping ==
    Transformed =>
        run.cleanedInput =
            IF FirstLineIsBanner THEN SubSeq(rawInput, FirstLineEnd + 1, Len(rawInput))
            ELSE rawInput

\* A banner line above a second banner line: only the first was removed, and
\* the second became the header line of the run.
C22_Witness ==
    /\ Transformed
    /\ FirstLineIsBanner
    /\ Len(run.cleanedInput) < Len(rawInput)
    /\ Len(run.lines) > 0
    /\ run.lines[1] = Banner

\* -------------------------------------------------------------- determinism
\* The rows, groups and error on display.
Results == <<transformedData, categorizedData, error>>

\* C23: a Transform ends in the rows, groups and error of the first Transform
\* ever made when that one read the same text, whatever was done in between;
\* and a Transform of the text whose results are on display leaves rows,
\* groups, error and text as they are, with the view mode 'none'.
C23_Determinism ==
    [][HandleTransform =>
          /\ run.first # Null /\ run.first[1].text = rawInput =>
                /\ transformedData' = run.first[1].transformedData
                /\ categorizedData' = run.first[1].categorizedData
                /\ error' = run.first[1].error
          /\ Transformed /\ run.text = rawInput =>
                /\ Results' = Results
                /\ rawInput' = rawInput
                /\ unifiedView' = "none"]_vars

\* The text of the first Transform was transformed once more and shows the
\* rows of the first time, with no error.
C23_Witness ==
    /\ run.again
    /\ run.text = rawInput
    /\ run.first[1].error = Null
    /\ error = Null
    /\ transformedData # Null
    /\ transformedData = run.first[1].transformedData
    /\ categorizedData = run.first[1].categorizedData

\* ------------------------------------------------------- whitespace splitting
\* C24: when the header line is split by the whitespace run, no header name
\* holds a space, the raw branch runs and stops in its column checks (the
\* identifier check or the first required column, UTC Ticket) before any data
\* line is mapped: an error is set, and neither rows nor groups.
C24_WhitespaceNeverSucceeds ==
    Classified /\ run.separator = WhitespaceRun =>
        /\ \A k \in 1..Len(run.headers) : " " \notin Range(run.headers[k])
        /\ run.branch = "raw"
        /\ run.mapped = <<>>
        /\ error \in { Some(FailedToProcess(MissingIdentifier)),
                        Some(FailedToProcess(MissingColumn(<<"UTC", " ", "Ticket">>))),
                        Some(FailedToProcess(HasOwnPropertyNotAFunction)) }
        /\ transformedData = Null
        /\ categorizedData = Null

\* A space-separated document with every raw column name: the names were cut
\* at their spaces, ID was found and UTC Ticket was not.
C24_Witness ==
    /\ Classified
    /\ run.separator = WhitespaceRun
    /\ {<<"ID">>, <<"UTC">>, <<"Ticket">>, <<"Region">>, <<"SKU">>} \subseteq HeaderNames
    /\ Len(run.lines) = 3
    /\ error = Some(FailedToProcess(MissingColumn(ColUTCTicket)))

\* ------------------------------------------------------------------ editing
\* A step of Clear or of a data load.
ClearOrLoad == HandleClear \/ \E data \in AppInputs : HandleDataLoaded(data)

\* C25: a change of the raw text that is neither a Clear nor a data load (an
\* edit of the textarea) leaves rows, groups, error and view mode as they
\* were; the rows and groups on display are always those of the text the last
\* Transform read, whatever rawInput holds now.
C25_EditKeepsResults ==
    /\ [][rawInput' # rawInput /\ ~ClearOrLoad =>
             UNCHANGED <<transformedData, categorizedData, error, unifiedView>>]_vars
    /\ [](transformedData # Null =>
             /\ transformedData = Transform(run.text).transformedData
             /\ categorizedData = Transform(run.text).categorizedData)

\* Rows of an earlier text are on display, in the full view, above a raw text
\* that an edit has emptied.
C25_Witness ==
    /\ transformedData # Null
    /\ categorizedData # Null
    /\ unifiedView = "full"
    /\ rawInput = <<>>
    /\ run.text # rawInput

\* ---------------------------------------------------------------- view mode
\* C26: in every state of the application the full view is on only while
\* rows and groups are both set, rows are unset exactly when groups are, and
\* every Transform, Clear and data load ends with the view mode 'none'.
C26_ViewMode ==
    /\ [](/\ unifiedView = "full" => transformedData # Null /\ categorizedData # Null
          /\ transformedData = Null <=> categorizedData = Null)
    /\ [][HandleTransform \/ ClearOrLoad => unifiedView' = "none"]_vars

\* The full view is on over the rows and groups of the text in the textarea.
C26_Witness ==
    /\ unifiedView = "full"
    /\ transformedData # Null
    /\ categorizedData # Null
    /\ error = Null
    /\ rawInput = run.text

\* -------------------------------------------------------------- CopyButton
\* C27: at most one call of handleCopy awaits the clipboard at any time, and
\* at most one reset timer is pending: a click during an earlier copy or its
\* feedback starts nothing.
C27_SingleCopyInFlight ==
    /\ writing + writingText <= 1
    /\ timers <= 1
    /\ copyState # "idle" => writing + writingText = 0

\* C28: a click on a button with empty data changes nothing; copyState becomes
\* 'success' or 'error' only from 'idle', each time a copy attempt ends (and
\* each attempt ends so), never one from the other; and a copyState that is
\* not 'idle' is 'idle' again later, when the timer fires.
C28_CopyStateCycle ==
    /\ [][/\ HandleCopy /\ Len(copyData) = 0 => UNCHANGED vars
          /\ timers' > timers => copyState = "idle" /\ copyState' \in {"success", "error"}
          /\ copyState = "success" => copyState' # "error"
          /\ copyState = "error" => copyState' # "success"]_vars
    /\ (copyState # "idle" ~> copyState = "idle")

\* -------------------------------------------------------- duplicate columns
\* The places of the column name col in the split header, left to right from 1.
PlacesOf(col) == {k \in 1..Len(run.headers) : run.headers[k] = col}

\* What data line i holds at place k ("" past the end of the line).
ValueAt(i, k) == IF k <= Len(run.values[i]) THEN Trim(run.values[i][k]) ELSE <<>>

\* What data line i holds in the right-most column named col.
RightMost(i, col) == ValueAt(i, MaxOf(PlacesOf(col)))

\* C29: every field read by a column name takes its value from the right-most
\* column of that name; columns of the same name to its left are not read.
C29_LastColumnWins ==
    /\ run.branch = "raw" =>
           \A i \in 1..Len(run.mapped) :
               LET row == run.mapped[i]
               IN  /\ row.SubscriptionID = RightMost(i, ColSubscriptionID)
                   /\ row.VMType = RightMost(i, ColSKU)
                   /\ row.Region = cleanRegion(RightMost(i, ColRegion))
                   /\ row.RequestType = RequestTypeTable(RightMost(i, ColUTCTicket))
                   /\ RightMost(i, ColDeploymentConstraints) # <<>> =>
                          row.Zone = RightMost(i, ColDeploymentConstraints)
                   /\ RightMost(i, ColEventID) \notin {<<>>, MinusOne}
                          /\ RightMost(i, ColUTCTicket) # AZEnablement =>
                          row.Cores = RightMost(i, ColEventID)
                   /\ PlacesOf(ColRDQuota) # {} /\ RightMost(i, ColRDQuota) # <<>> =>
                          row.OriginalID = RightMost(i, ColRDQuota)
                   /\ PlacesOf(ColRDQuota) = {} /\ PlacesOf(ColID) # {} =>
                          row.OriginalID = RightMost(i, ColID)
    /\ run.branch = "pre" =>
           \A i \in 1..Len(run.mapped) :
               LET row == run.mapped[i]
               IN  /\ row.SubscriptionID = RightMost(i, ColSubscriptionID)
                   /\ row.RequestType = RightMost(i, ColRequestType)
                   /\ row.VMType = RightMost(i, ColVMType)
                   /\ row.Region = cleanRegion(RightMost(i, ColRegion))
                   /\ row.Zone = RightMost(i, ColZone)
                   /\ row.Cores = RightMost(i, ColCores)
                   /\ row.Status = SharedStatusTable(RightMost(i, ColStatus))

\* A raw document with two SKU columns of different values was published with
\* the value of the right one.
C29_Witness ==
    /\ run.branch = "raw"
    /\ Succeeded
    /\ Cardinality(PlacesOf(ColSKU)) = 2
    /\ ValueAt(1, MinOf(PlacesOf(ColSKU))) = <<"Standard_D2">>
    /\ ValueAt(1, MaxOf(PlacesOf(ColSKU))) = <<"dup">>
    /\ transformedData[1][1].VMType = <<"dup">>

\* ------------------------------------------------------ rewriting rewritten
\* The source keys of the request-type table and of the status chains.
RequestTypeKeys ==
    { AZEnablement, RegionEnablement, WhitelistingQuotaIncrease, QuotaIncrease,
      RegionLimitIncrease, RIEnablement }

StatusKeys == {FulfillmentActionsCompleted, VerificationSuccessful, Abandoned, Dash}

\* C30: the request-type rewrite applied to the Request Type of a raw row, and
\* the status rewrite of a branch applied to the Status of a row of that
\* branch, give the value back unchanged: a rewritten Request Type is a source
\* key only for the two identity entries, and a rewritten Status is a source
\* key of its branch's chain never.
C30_RewritesIdempotent ==
    /\ run.branch = "raw" =>
           \A i \in 1..Len(run.mapped) :
               /\ RewriteRequestType(run.mapped[i].RequestType) = run.mapped[i].RequestType
               /\ RewriteStatusRaw(run.mapped[i].Status) = run.mapped[i].Status
               /\ run.mapped[i].RequestType \in RequestTypeKeys =>
                      run.mapped[i].RequestType \in
                          {<<"Quota", " ", "Increase">>, <<"Region", " ", "Limit", " ", "Increase">>}
               /\ run.mapped[i].Status \notin StatusKeys
    /\ run.branch = "pre" =>
           \A i \in 1..Len(run.mapped) :
               /\ RewriteStatusPre(run.mapped[i].Status) = run.mapped[i].Status
               /\ run.mapped[i].Status \notin StatusKeys \ {FulfillmentActionsCompleted}

\* A raw line whose ticket and reason were both rewritten was published, and
\* rewriting its Request Type and Status again changes neither.
C30_Witness ==
    /\ run.branch = "raw"
    /\ Succeeded
    /\ \E i \in 1..Len(run.mapped) :
          /\ ValueOf(i, ColUTCTicket) = WhitelistingQuotaIncrease
          /\ ValueOf(i, ColReason) = Dash
          /\ run.mapped[i].RequestType # ValueOf(i, ColUTCTicket)
          /\ run.mapped[i].Status # ValueOf(i, ColReason)
          /\ RewriteRequestType(run.mapped[i].RequestType) = run.mapped[i].RequestType
          /\ RewriteStatusRaw(run.mapped[i].Status) = run.mapped[i].Status
          /\ run.mapped[i] \in Range(transformedData[1])

====
